---- MODULE Spec2Model ----
(***************************************************************************)
(* A model of form.py: MyForm, a reflection based form binder.  The form   *)
(* keeps one attribute per column of a SQLAlchemy model; get() copies an   *)
(* instance into the form, post() copies a request into the instance and   *)
(* the form, html_tag renders one field as markup.                         *)
(*                                                                         *)
(* Python values are tagged records (field t is the Python type); text is  *)
(* a sequence of one-character strings, so that parsing and formatting     *)
(* are computed character by character.                                    *)
(***************************************************************************)
EXTENDS Integers, Sequences, FiniteSets, TLC

VARIABLES model, form, instance, call, html

vars == <<model, form, instance, call, html>>

(***************************************************************************)
(* Bounds of the model.                                                    *)
(***************************************************************************)
\* the largest sub-form index i passed to post and html_tag
MaxIndex == 0
\* the largest number of keys a request carries
MaxKeys == 2
\* the largest number of attributes passed to html_tag
MaxAttrs == 2

(***************************************************************************)
(* Python values.                                                          *)
(***************************************************************************)
None == [t |-> "None"]
IntV(n) == [t |-> "int", n |-> n]
StrV(s) == [t |-> "str", s |-> s]
\* the float m / 10^e, with m not a multiple of 10 unless e = 0
FloatV(m, e) == [t |-> "float", m |-> m, e |-> e]
DateV(y, mo, d) == [t |-> "date", y |-> y, mo |-> mo, d |-> d]
BoolV(b) == [t |-> "bool", b |-> b]
ListV(items) == [t |-> "list", items |-> items]

\* bool(value): Python's truth value, as used by `x if value else None`
Truthy(v) ==
  CASE v.t = "None" -> FALSE
    [] v.t = "int" -> v.n # 0
    [] v.t = "float" -> v.m # 0
    [] v.t = "str" -> v.s # <<>>
    [] v.t = "bool" -> v.b
    [] v.t = "list" -> v.items # <<>>
    [] OTHER -> TRUE

\* the outcome of an expression that may raise
Ok(v) == [ok |-> TRUE, v |-> v]
Raise == [ok |-> FALSE]

(***************************************************************************)
(* Text: digits, numbers, dates.                                           *)
(***************************************************************************)
DigitChars == <<"0", "1", "2", "3", "4", "5", "6", "7", "8", "9">>

IsDigit(c) == \E k \in 1..10 : DigitChars[k] = c

DigitVal(c) == (CHOOSE k \in 1..10 : DigitChars[k] = c) - 1

AllDigits(s) == s # <<>> /\ \A k \in 1..Len(s) : IsDigit(s[k])

RECURSIVE Num(_)
Num(s) ==
  IF s = <<>> THEN 0
  ELSE Num(SubSeq(s, 1, Len(s) - 1)) * 10 + DigitVal(s[Len(s)])

RECURSIVE NatStr(_)
\* str(n) for n >= 0
NatStr(n) ==
  IF n < 10 THEN <<DigitChars[n + 1]>>
  ELSE NatStr(n \div 10) \o <<DigitChars[(n % 10) + 1]>>

IntStr(n) == IF n < 0 THEN <<"-">> \o NatStr(-n) ELSE NatStr(n)

RECURSIVE Pad(_, _)
\* "%0<w>d": left padding with zeros to width w
Pad(s, w) == IF Len(s) >= w THEN s ELSE Pad(<<"0">> \o s, w)

RECURSIVE Strip(_)
\* str.strip() for blanks, which int() and float() apply to their argument
Strip(s) ==
  IF s = <<>> THEN s
  ELSE IF s[1] = " " THEN Strip(Tail(s))
  ELSE IF s[Len(s)] = " " THEN Strip(SubSeq(s, 1, Len(s) - 1))
  ELSE s

\* int(text): blanks stripped, an optional sign, then decimal digits
IntParse(s) ==
  LET u == Strip(s)
      signed == u # <<>> /\ u[1] \in {"-", "+"}
      body == IF signed THEN Tail(u) ELSE u
  IN IF ~AllDigits(body) THEN Raise
     ELSE IF signed /\ u[1] = "-" THEN Ok(IntV(-Num(body)))
     ELSE Ok(IntV(Num(body)))

RECURSIVE DropZeros(_)
\* a fraction's digits without its trailing zeros
DropZeros(s) ==
  IF s # <<>> /\ s[Len(s)] = "0" THEN DropZeros(SubSeq(s, 1, Len(s) - 1))
  ELSE s

\* float(text): blanks stripped, an optional sign, digits with an optional
\* point (decimal literals only)
FloatParse(s) ==
  LET u == Strip(s)
      signed == u # <<>> /\ u[1] \in {"-", "+"}
      body == IF signed THEN Tail(u) ELSE u
      dots == {k \in 1..Len(body) : body[k] = "."}
      p == IF dots = {} THEN Len(body) + 1 ELSE CHOOSE k \in dots : TRUE
      whole == SubSeq(body, 1, p - 1)
      frac == DropZeros(SubSeq(body, p + 1, Len(body)))
      digits == whole \o SubSeq(body, p + 1, Len(body))
      mag == Num(whole \o frac)
  IN IF Cardinality(dots) > 1 \/ ~AllDigits(digits) THEN Raise
     ELSE IF signed /\ u[1] = "-" THEN Ok(FloatV(-mag, Len(frac)))
     ELSE Ok(FloatV(mag, Len(frac)))

IsLeap(y) == (y % 4 = 0 /\ y % 100 # 0) \/ y % 400 = 0

DaysIn(y, mo) ==
  IF mo = 2 THEN (IF IsLeap(y) THEN 29 ELSE 28)
  ELSE IF mo \in {4, 6, 9, 11} THEN 30 ELSE 31

\* what %d matches: 3[01] | [12]\d | 0[1-9] | [1-9] | ' '[1-9]
IsDay(D) ==
  \/ AllDigits(D) /\ Len(D) <= 2 /\ Num(D) \in 1..31
  \/ Len(D) = 2 /\ D[1] = " " /\ IsDigit(D[2]) /\ D[2] # "0"

DayNum(D) == IF D[1] = " " THEN Num(Tail(D)) ELSE Num(D)

\* datetime.strptime(text, '%Y-%m-%d').date(): four digits of year, one or
\* two digits of month in 1..12 and of day in 1..31, nothing else, and the
\* date must exist (year >= 1, day within the month)
DateParse(s) ==
  LET dashes == {k \in 1..Len(s) : s[k] = "-"}
      p1 == CHOOSE k \in dashes : \A j \in dashes : k <= j
      p2 == CHOOSE k \in dashes : \A j \in dashes : k >= j
      Y == SubSeq(s, 1, p1 - 1)
      M == SubSeq(s, p1 + 1, p2 - 1)
      D == SubSeq(s, p2 + 1, Len(s))
  IN IF Cardinality(dashes) # 2 THEN Raise
     ELSE IF ~(AllDigits(Y) /\ Len(Y) = 4) THEN Raise
     ELSE IF ~(AllDigits(M) /\ Len(M) <= 2 /\ Num(M) \in 1..12) THEN Raise
     ELSE IF ~IsDay(D) THEN Raise
     ELSE IF Num(Y) < 1 \/ DayNum(D) > DaysIn(Num(Y), Num(M)) THEN Raise
     ELSE Ok(DateV(Num(Y), Num(M), DayNum(D)))

\* a date formatted without its leading zeros
DateStrUnpadded(v) ==
  NatStr(v.y) \o <<"-">> \o NatStr(v.mo) \o <<"-">> \o NatStr(v.d)

\* date.isoformat(), which is str(date): "%04d-%02d-%02d"
DateStr(v) ==
  Pad(NatStr(v.y), 4) \o <<"-">> \o Pad(NatStr(v.mo), 2) \o <<"-">>
    \o Pad(NatStr(v.d), 2)

\* str(float) of a decimal: at least one digit on each side of the point
FloatStr(v) ==
  LET mag == IF v.m < 0 THEN -v.m ELSE v.m
      ds == Pad(NatStr(mag), v.e + 1)
      whole == SubSeq(ds, 1, Len(ds) - v.e)
      frac == IF v.e = 0 THEN <<"0">> ELSE SubSeq(ds, Len(ds) - v.e + 1, Len(ds))
  IN (IF v.m < 0 THEN <<"-">> ELSE <<>>) \o whole \o <<".">> \o frac

\* str(value) as an f-string formats it (a list is formatted by ListStr below)
ToStr(v) ==
  CASE v.t = "None" -> <<"N", "o", "n", "e">>
    [] v.t = "int" -> IntStr(v.n)
    [] v.t = "float" -> FloatStr(v)
    [] v.t = "str" -> v.s
    [] v.t = "date" -> DateStr(v)
    [] v.t = "bool" -> IF v.b THEN <<"T", "r", "u", "e">>
                       ELSE <<"F", "a", "l", "s", "e">>
    [] OTHER -> <<"[", "]">>

(***************************************************************************)
(* The model classes the form is built for.  A table is the sequence of    *)
(* its columns; a column has a name, a SQLAlchemy type and may carry a     *)
(* foreign key.                                                            *)
(***************************************************************************)
Column(name, type, fk) == [name |-> name, type |-> type, foreign_keys |-> fk]

ItemTable ==
  << Column("id", "Integer", FALSE), Column("name", "String", FALSE),
     Column("category_id", "Integer", TRUE), Column("price", "Float", FALSE) >>

TaskTable ==
  << Column("id", "Integer", FALSE), Column("quantity", "Integer", FALSE),
     Column("due", "Date", FALSE), Column("done", "Boolean", FALSE) >>

Models == {"Item", "Task"}

Table(m) == IF m = "Item" THEN ItemTable ELSE TaskTable

\* the loop of MyForm.get_columns: the columns in table order, a column with
\* a foreign key reported as 'ForeignKey' whatever its type
ColumnsOf(table) ==
  [k \in 1..Len(table) |->
     [name |-> table[k].name,
      type |-> IF table[k].foreign_keys THEN "ForeignKey" ELSE table[k].type]]

ItemColumns == ColumnsOf(ItemTable)
TaskColumns == ColumnsOf(TaskTable)

\* MyForm.get_columns of a form built for model m
get_columns(m) == IF m = "Item" THEN ItemColumns ELSE TaskColumns

ColumnNames(m) == {get_columns(m)[k].name : k \in 1..Len(get_columns(m))}

\* get_columns()[name]
ColumnType(m, name) ==
  get_columns(m)[CHOOSE k \in 1..Len(get_columns(m)) :
                   get_columns(m)[k].name = name].type

\* MyForm._create_attributes_from_model: "" for a String column, 0 otherwise
create_attributes_from_model(m) ==
  [c \in ColumnNames(m) |->
     IF ColumnType(m, c) = "String" THEN StrV(<<>>)
     ELSE IntV(0)]

(***************************************************************************)
(* Coercions.                                                              *)
(***************************************************************************)
\* int(value)
IntOf(v) ==
  CASE v.t = "str" -> IntParse(v.s)
    [] v.t = "int" -> Ok(v)
    [] OTHER -> Raise

\* float(value)
FloatOf(v) ==
  CASE v.t = "str" -> FloatParse(v.s)
    [] v.t = "int" -> Ok(FloatV(v.n, 0))
    [] v.t = "float" -> Ok(v)
    [] OTHER -> Raise

\* datetime.strptime(value, '%Y-%m-%d').date(): a TypeError unless value is str
StrpDate(v) == IF v.t = "str" THEN DateParse(v.s) ELSE Raise

\* the value post() stores for a column of this type, from the request's value
PostValue(type, value) ==
  CASE type = "ForeignKey" -> IF Truthy(value) THEN IntOf(value) ELSE Ok(None)
    [] type = "Date" ->
         IF value.t = "str"
         THEN (IF Truthy(value) THEN StrpDate(value) ELSE Ok(None))
         ELSE Ok(value)
    [] type = "Float" -> IF Truthy(value) THEN FloatOf(value) ELSE Ok(None)
    [] type = "Integer" -> IF Truthy(value) THEN IntOf(value) ELSE Ok(None)
    [] OTHER -> Ok(value)

\* get() with `if value is not None` in place of `if value`
GetValueNotNone(type, value) ==
  CASE type = "ForeignKey" -> IF value # None THEN IntOf(value) ELSE Ok(None)
    [] type = "Date" ->
         IF value.t = "date" THEN Ok(value)
         ELSE IF value # None THEN StrpDate(value) ELSE Ok(None)
    [] type = "Float" -> IF value # None THEN FloatOf(value) ELSE Ok(None)
    [] type = "Integer" -> IF value # None THEN IntOf(value) ELSE Ok(None)
    [] OTHER -> Ok(value)

\* the value get() stores for a column of this type, from the instance's value
GetValue(type, value) ==
  CASE type = "ForeignKey" -> IF Truthy(value) THEN IntOf(value) ELSE Ok(None)
    [] type = "Date" ->
         IF value.t = "date" THEN Ok(value)
         ELSE IF Truthy(value) THEN StrpDate(value) ELSE Ok(None)
    [] type = "Float" -> IF Truthy(value) THEN FloatOf(value) ELSE Ok(None)
    [] type = "Integer" -> IF Truthy(value) THEN IntOf(value) ELSE Ok(None)
    [] OTHER -> Ok(value)

(***************************************************************************)
(* post and get.  A request is a function from its keys to their text.     *)
(***************************************************************************)
\* request.form.get(key): the text under key, None when the key is missing
RequestGet(req, key) == IF key \in DOMAIN req THEN StrV(req[key]) ELSE None

RECURSIVE Join(_)
\* the string of a text
Join(s) == IF s = <<>> THEN "" ELSE s[1] \o Join(Tail(s))

\* the name without the index
html_name_plain(name, i) == name

\* f"{name}-{i}" if i > -1 else name
html_name(name, i) == IF i > -1 THEN name \o "-" \o Join(IntStr(i)) ELSE name

\* whether post() stores the request's record id on the form
HasRecordId(req, i) == Truthy(RequestGet(req, "record_id"))

\* the turn for the id column: the record id stored on the form when the
\* request holds a record_id, and nothing written on the instance
PostId(st, req, i) ==
  IF HasRecordId(req, i)
  THEN [st EXCEPT !.form["id"] = RequestGet(req, html_name("record_id", i))]
  ELSE st

\* post() writing the coerced value on the form only
PostColumnFormOnly(col, k, st, req, i) ==
  IF col.name = "id" THEN PostId(st, req, i)
  ELSE LET c == PostValue(col.type, RequestGet(req, html_name(col.name, i)))
       IN IF c.ok THEN [st EXCEPT !.form[col.name] = c.v]
          ELSE [st EXCEPT !.err = k]

\* post() binding None, and going on, where the coercion raises
PostColumnDefaulting(col, k, st, req, i) ==
  IF col.name = "id" THEN PostId(st, req, i)
  ELSE LET c == PostValue(col.type, RequestGet(req, html_name(col.name, i)))
           v == IF c.ok THEN c.v ELSE None
       IN [st EXCEPT !.instance[col.name] = v, !.form[col.name] = v]

\* post() leaving a column alone when the request has no key for it
PostColumnIfSent(col, k, st, req, i) ==
  IF col.name = "id" THEN PostId(st, req, i)
  ELSE LET c == PostValue(col.type, RequestGet(req, html_name(col.name, i)))
       IN IF html_name(col.name, i) \notin DOMAIN req THEN st
          ELSE IF c.ok
          THEN [st EXCEPT !.instance[col.name] = c.v, !.form[col.name] = c.v]
          ELSE [st EXCEPT !.err = k]

\* one turn of post()'s loop; st = [form, instance, err], err the number of
\* the column whose coercion raised (0: none)
PostColumn(col, k, st, req, i) ==
  IF col.name = "id" THEN PostId(st, req, i)
  ELSE LET value == RequestGet(req, html_name(col.name, i))
           c == PostValue(col.type, value)
       IN IF c.ok
          THEN [st EXCEPT !.instance[col.name] = c.v, !.form[col.name] = c.v]
          ELSE [st EXCEPT !.err = k]

RECURSIVE PostFrom(_, _, _, _, _)
PostFrom(cols, k, st, req, i) ==
  IF k > Len(cols) \/ st.err # 0 THEN st
  ELSE PostFrom(cols, k + 1, PostColumn(cols[k], k, st, req, i), req, i)

\* MyForm.post(request, instance, i)
post(m, f, inst, req, i) ==
  PostFrom(get_columns(m), 1, [form |-> f, instance |-> inst, err |-> 0], req, i)

\* one turn of get()'s loop; st = [form, err]
GetColumn(col, k, st, inst) ==
  LET c == GetValue(col.type, inst[col.name])
  IN IF c.ok THEN [st EXCEPT !.form[col.name] = c.v]
     ELSE [st EXCEPT !.err = k]

RECURSIVE GetFrom(_, _, _, _)
GetFrom(cols, k, st, inst) ==
  IF k > Len(cols) \/ st.err # 0 THEN st
  ELSE GetFrom(cols, k + 1, GetColumn(cols[k], k, st, inst), inst)

\* MyForm.get(instance)
get(m, f, inst) == GetFrom(get_columns(m), 1, [form |-> f, err |-> 0], inst)

(***************************************************************************)
(* html_tag.  The keyword attributes are a sequence of <<key, value>>      *)
(* pairs in the caller's order, as a Python dict keeps them.               *)
(***************************************************************************)
Keys(attributes) == {attributes[k][1] : k \in 1..Len(attributes)}

\* attributes[key]
Attr(attributes, key) ==
  attributes[CHOOSE k \in 1..Len(attributes) : attributes[k][1] = key][2]

RECURSIVE Pop(_, _)
\* attributes without key
Pop(attributes, key) ==
  IF attributes = <<>> THEN <<>>
  ELSE IF attributes[1][1] = key THEN Pop(Tail(attributes), key)
  ELSE <<attributes[1]>> \o Pop(Tail(attributes), key)

\* attributes[key] = value: in place when the key is there, else at the end
Put(attributes, key, value) ==
  IF key \in Keys(attributes)
  THEN [k \in 1..Len(attributes) |->
          IF attributes[k][1] = key THEN <<key, value>> ELSE attributes[k]]
  ELSE Append(attributes, <<key, value>>)

\* a == b in Python
PyEq(a, b) ==
  CASE a.t = "int" /\ b.t = "float" -> b.e = 0 /\ b.m = a.n
    [] a.t = "float" /\ b.t = "int" -> a.e = 0 /\ a.m = b.n
    [] OTHER -> a = b

\* repr(value) inside a list: text in quotes
Repr(v) == IF v.t = "str" THEN <<"'">> \o v.s \o <<"'">> ELSE ToStr(v)

RECURSIVE ItemsStr(_)
ItemsStr(items) ==
  IF items = <<>> THEN <<>>
  ELSE <<"(">> \o Repr(items[1][1]) \o <<",", " ">> \o Repr(items[1][2])
         \o <<")">>
         \o (IF Len(items) > 1 THEN <<",", " ">> ELSE <<>>)
         \o ItemsStr(Tail(items))

\* f"{value}" of an attribute's value
AttrStr(v) ==
  IF v.t = "list" THEN <<"[">> \o ItemsStr(v.items) \o <<"]">> ELSE ToStr(v)

\* the tag type chosen for a column type
TagType(type) ==
  IF type = "Date" THEN "date"
  ELSE IF type = "Integer" /\ type # "ForeignKey" THEN "number"
  ELSE IF type = "Float" THEN "number"
  ELSE IF type = "ForeignKey" THEN "select"
  ELSE "text"

\* attributes['class'] = attributes.pop('css_class')
RenameClass(attributes) ==
  IF "css_class" \in Keys(attributes)
  THEN Put(Pop(attributes, "css_class"), "class", Attr(attributes, "css_class"))
  ELSE attributes

\* the loop over the boolean attributes: what one attribute becomes
BooleanAttr(key, val) ==
  IF val.t = "bool" /\ val.b THEN StrV(<<key>>)
  ELSE IF key = "autocomplete" /\ val = BoolV(FALSE) THEN StrV(<<"o", "f", "f">>)
  ELSE IF key = "autocomplete" /\ val = BoolV(TRUE) THEN StrV(<<"o", "n">>)
  ELSE val

BooleanAttrs(attributes) ==
  [k \in 1..Len(attributes) |->
     <<attributes[k][1], BooleanAttr(attributes[k][1], attributes[k][2])>>]

\* the name attribute without the index
FieldNameNoIndex(name, attributes) == IF name = "id" THEN "record_id" ELSE name

\* the name attribute: record_id for id, with -<i> when i is given
FieldName(name, attributes) ==
  LET field_name == IF name = "id" THEN "record_id" ELSE name
  IN IF "i" \in Keys(attributes)
     THEN field_name \o "-" \o Join(AttrStr(Attr(attributes, "i")))
     ELSE field_name

\* ' '.join(f'{key}="{value}"' ...) as the sequence of its <<key, text>>
AttrsOf(attributes) ==
  LET kept == SelectSeq(attributes, LAMBDA a : a[2] # None)
  IN [k \in 1..Len(kept) |-> <<kept[k][1], AttrStr(kept[k][2])>>]

\* the options of a select with the implicit option last
OptionsOfImplicitLast(attributes) ==
  (IF "options" \in Keys(attributes)
   THEN Attr(attributes, "options").items ELSE <<>>)
    \o <<<<IntV(0), StrV(<<>>)>>>>

\* the options of a select: [(0, "")] + attributes.pop('options', [])
OptionsOf(attributes) ==
  <<<<IntV(0), StrV(<<>>)>>>>
    \o (IF "options" \in Keys(attributes)
        THEN Attr(attributes, "options").items ELSE <<>>)

\* one <option>
OptionTag(opt, value) ==
  [value |-> ToStr(opt[1]), selected |-> PyEq(opt[1], value),
   label |-> ToStr(opt[2])]

\* MyForm.html_tag's generate_tag(name, **attributes)
generate_tag(m, f, name, attributes) ==
  LET column_type == ColumnType(m, name)
      value == f[name]
      tag_type == TagType(column_type)
      a1 == BooleanAttrs(RenameClass(attributes))
      field_name == FieldName(name, a1)
      a2 == Pop(a1, "i")
      attrs == AttrsOf(a2)
      options == OptionsOf(a2)
  IN IF tag_type = "select"
     THEN [tag |-> "select", name |-> field_name, attrs |-> attrs,
           options |-> [k \in 1..Len(options) |-> OptionTag(options[k], value)]]
     ELSE [tag |-> "input", type |-> tag_type, name |-> field_name,
           value |-> ToStr(value), attrs |-> attrs]

(***************************************************************************)
(* The inputs: request texts, instances, attributes.                       *)
(***************************************************************************)
\* the request without a field
NoRequest == <<>>

GoodDate == <<"2", "0", "2", "4", "-", "0", "3", "-", "0", "5">>
ShortDate == <<"2", "0", "2", "4", "-", "3", "-", "5">>
NotADate == <<"n", "o", "t", "-", "a", "-", "d", "a", "t", "e">>

\* the texts a browser may send for a column of this type
TextsOf(name, type) ==
  CASE name = "id" -> {<<>>, <<"5">>}
    [] type = "String" -> {<<>>, <<"a", "b">>}
    [] type = "Integer" -> {<<>>, <<"0">>, <<"7">>}
    [] type = "ForeignKey" -> {<<>>, <<"2">>}
    [] type = "Float" -> {<<>>, <<"1", ".", "5">>}
    [] type = "Date" -> {<<>>, GoodDate, ShortDate, NotADate}
    [] OTHER -> {<<"o", "n">>}

\* the values an instance may hold in a column of this type
ValuesOf(name, type) ==
  CASE name = "id" -> {None, IntV(5)}
    [] type = "String" -> {None, StrV(<<"a", "b">>)}
    [] type = "Integer" -> {None, IntV(0), StrV(<<>>), IntV(7)}
    [] type = "ForeignKey" -> {None, IntV(0), StrV(<<>>), IntV(2)}
    [] type = "Float" -> {None, IntV(0), StrV(<<>>), FloatV(15, 1)}
    [] type = "Date" -> {None, IntV(0), StrV(<<>>), DateV(2024, 3, 5),
                         StrV(GoodDate)}
    [] OTHER -> {None, BoolV(TRUE)}

\* the key a browser sends a field under: its name, or name-i in sub-form i
KeyFor(c, i) == IF i = -1 THEN c ELSE c \o "-" \o ToString(i)

\* the name of a column's field: the identity column's is record_id
FormKey(name) == IF name = "id" THEN "record_id" ELSE name

RequestKeys(m) ==
  {KeyFor(FormKey(c), i) : c \in ColumnNames(m), i \in -1..MaxIndex}

\* the column a request key belongs to
KeyColumn(m, key) ==
  CHOOSE c \in ColumnNames(m) :
    \E i \in -1..MaxIndex : KeyFor(FormKey(c), i) = key

AllTexts(m) == UNION {TextsOf(c, ColumnType(m, c)) : c \in ColumnNames(m)}

RequestsFor(m) ==
  UNION {{req \in [K -> AllTexts(m)] :
            \A key \in K :
              req[key] \in TextsOf(KeyColumn(m, key),
                                   ColumnType(m, KeyColumn(m, key)))} :
         K \in {K \in SUBSET RequestKeys(m) : Cardinality(K) <= MaxKeys}}

ItemRequests == RequestsFor("Item")
TaskRequests == RequestsFor("Task")
Requests(m) == IF m = "Item" THEN ItemRequests ELSE TaskRequests

AllValues(m) == UNION {ValuesOf(c, ColumnType(m, c)) : c \in ColumnNames(m)}

InstancesFor(m) ==
  {inst \in [ColumnNames(m) -> AllValues(m)] :
     \A c \in ColumnNames(m) : inst[c] \in ValuesOf(c, ColumnType(m, c))}

ItemInstances == InstancesFor("Item")
TaskInstances == InstancesFor("Task")
Instances(m) == IF m = "Item" THEN ItemInstances ELSE TaskInstances

LeapDate == <<"2", "0", "2", "4", "-", "0", "2", "-", "2", "9">>
OldDate == <<"0", "9", "9", "9", "-", "1", "2", "-", "3", "1">>
NoSuchDate == <<"2", "0", "2", "3", "-", "0", "2", "-", "2", "9">>

\* the texts of a request that holds one field: more dates, and text that
\* is no number
FieldTexts(name, type) ==
  TextsOf(name, type)
    \cup (IF type = "Date" THEN {LeapDate, OldDate, NoSuchDate} ELSE {})
    \cup (IF type = "ForeignKey" THEN {<<"x">>} ELSE {})

\* the requests that hold one field, or a record id with and without index
FieldRequestsFor(m) ==
  {NoRequest}
    \cup UNION {{[k \in {key} |-> t] :
                  t \in FieldTexts(KeyColumn(m, key),
                                   ColumnType(m, KeyColumn(m, key)))} :
                key \in RequestKeys(m)}
    \cup {[k \in {"record_id", KeyFor("record_id", i)} |->
            IF k = "record_id" THEN <<"5">> ELSE <<"6">>] : i \in 0..MaxIndex}

ItemFieldRequests == FieldRequestsFor("Item")
TaskFieldRequests == FieldRequestsFor("Task")
FieldRequests(m) == IF m = "Item" THEN ItemFieldRequests ELSE TaskFieldRequests

\* the requests that hold at most one field, unsuffixed
PlainRequests(m) ==
  {req \in Requests(m) :
     /\ Cardinality(DOMAIN req) <= 1
     /\ DOMAIN req \subseteq {FormKey(c) : c \in ColumnNames(m)}}

\* html_tag(name) and html_tag(name, i=k)
IndexAttributes == {<<>>} \cup {<<<<"i", IntV(k)>>>> : k \in 0..MaxIndex}

Books == <<IntV(1), StrV(<<"B", "o", "o", "k", "s">>)>>
Toys == <<IntV(2), StrV(<<"T", "o", "y", "s">>)>>

\* the attributes a template passes, in the order it passes them
AttrPool ==
  << <<"css_class", StrV(<<"h", "i", "g", "h", "l", "i", "g", "h", "t">>)>>,
     <<"disabled", BoolV(TRUE)>>, <<"disabled", BoolV(FALSE)>>,
     <<"autocomplete", BoolV(TRUE)>>, <<"autocomplete", BoolV(FALSE)>>,
     <<"placeholder", None>>, <<"i", IntV(0)>>,
     <<"options", ListV(<<>>)>>, <<"options", ListV(<<Books, Toys>>)>> >>

\* the entries of the pool at the places P, in the pool's order
RECURSIVE Pick(_, _)
Pick(P, k) ==
  IF k > Len(AttrPool) THEN <<>>
  ELSE (IF k \in P THEN <<AttrPool[k]>> ELSE <<>>) \o Pick(P, k + 1)

\* up to MaxAttrs attributes of the pool, no key twice
TagAttributes ==
  {Pick(P, 1) :
     P \in {Q \in SUBSET (1..Len(AttrPool)) :
              /\ Cardinality(Q) <= MaxAttrs
              /\ \A j, k \in Q : j # k => AttrPool[j][1] # AttrPool[k][1]}}

(***************************************************************************)
(* The state machine.                                                      *)
(***************************************************************************)
NoTag == [tag |-> "none"]

\* no bind call is in progress
NoCall == [op |-> "none", req |-> NoRequest, i |-> -1, err |-> 0]

\* MyForm(model), and an instance of the model none of whose columns is set
Init ==
  /\ model \in Models
  /\ form = create_attributes_from_model(model)
  /\ instance = [c \in ColumnNames(model) |-> None]
  /\ call = NoCall
  /\ html = NoTag

\* form.get(inst)
Get ==
  /\ call = NoCall
  /\ \E inst \in Instances(model) :
       \E r \in {get(model, form, inst)} :
         /\ form' = r.form
         /\ instance' = inst
         /\ call' = [op |-> "get", req |-> NoRequest, i |-> -1, err |-> r.err]
         /\ html' = NoTag
         /\ UNCHANGED model

\* form.post(request, instance, i)
PostWith(requests, indexes) ==
  /\ call = NoCall
  /\ \E req \in requests, i \in indexes :
       \E r \in {post(model, form, instance, req, i)} :
         /\ form' = r.form
         /\ instance' = r.instance
         /\ call' = [op |-> "post", req |-> req, i |-> i, err |-> r.err]
         /\ html' = NoTag
         /\ UNCHANGED model

\* the bind call is over, normally or with its exception, and the caller
\* goes on with the form and the instance as the call left them
Return ==
  /\ call # NoCall
  /\ call' = NoCall
  /\ html' = NoTag
  /\ UNCHANGED <<model, form, instance>>

\* form.html_tag(name, **attributes)
RenderWith(attributeSet) ==
  \E name \in ColumnNames(model), attributes \in attributeSet :
    /\ html' = [name |-> name, attributes |-> attributes,
                out |-> generate_tag(model, form, name, attributes)]
    /\ UNCHANGED <<model, form, instance, call>>

\* the bind calls: get and post of requests of up to MaxKeys keys
Post == PostWith(Requests(model), -1..MaxIndex)

Next == Get \/ Post \/ Return

Spec == Init /\ [][Next]_vars

\* a form is posted one field at a time, then its fields are rendered, with
\* and without an index
PostField == PostWith(FieldRequests(model), -1..MaxIndex)

RenderField == RenderWith(IndexAttributes)

NextRound == PostField \/ RenderField \/ Return

SpecRound == Init /\ [][NextRound]_vars

\* a form is posted without an index, then its fields are rendered with
\* attributes
PostPlain == PostWith(PlainRequests(model), {-1})

RenderTag == RenderWith(TagAttributes)

NextTags == PostPlain \/ RenderTag \/ Return

SpecTags == Init /\ [][NextTags]_vars

(***************************************************************************)
(* What the claims speak of.                                               *)
(***************************************************************************)
NonIdentity(m) == ColumnNames(m) \ {"id"}

\* the place of a column in the table
Place(m, c) ==
  CHOOSE k \in 1..Len(get_columns(m)) : get_columns(m)[k].name = c

\* the text a request holds under a key, <<>> when it holds none
TextAt(req, key) == IF key \in DOMAIN req THEN req[key] ELSE <<>>

Numeric == {"Integer", "Float", "Date", "ForeignKey"}

\* the coercion of a request value by the column's kind: integer, float,
\* date, or the value as it is; the absent value for absent or empty text
Coercion(type, req, key) ==
  IF type \in Numeric
  THEN IF TextAt(req, key) = <<>> THEN None
       ELSE IF type = "Float" THEN FloatParse(req[key]).v
       ELSE IF type = "Date" THEN DateParse(req[key]).v
       ELSE IntParse(req[key]).v
  ELSE IF key \in DOMAIN req THEN StrV(req[key]) ELSE None

\* text in YYYY-MM-DD form: ten characters, digits but for the two dashes
IsoForm(s) ==
  /\ Len(s) = 10
  /\ \A k \in 1..10 : IF k \in {5, 8} THEN s[k] = "-" ELSE IsDigit(s[k])

PostReturned == call.op = "post" /\ call.err = 0

\* C1: when post returns normally, every non-identity column holds the same
\* value on the instance and on the form, the coercion by the column's kind
\* of the request value looked up for it
C1_PostWritesBoth ==
  PostReturned =>
    \A c \in NonIdentity(model) :
      /\ instance[c] = form[c]
      /\ form[c] = Coercion(ColumnType(model, c), call.req, KeyFor(c, call.i))

\* C1's case: an indexed post has bound a date and an integer from text
C1_Witness ==
  /\ PostReturned /\ call.i = 0 /\ model = "Task"
  /\ form["due"] = DateV(2024, 3, 5) /\ instance["due"] = DateV(2024, 3, 5)
  /\ form["quantity"] = IntV(7) /\ instance["quantity"] = IntV(7)

\* the falsy values the claims name: 0, the empty string, None
Falsy == {IntV(0), StrV(<<>>), None}

\* C2 as stated: for every column of kind Integer, Float, Date or ForeignKey,
\* the identity column included, get binds an instance value of 0, '' or None
\* to None, and a post that returns binds a missing or empty request value
\* to None on the instance and on the form
C2_Original ==
  /\ (call.op = "get" /\ call.err = 0) =>
       \A c \in ColumnNames(model) :
         (ColumnType(model, c) \in Numeric /\ instance[c] \in Falsy)
           => form[c] = None
  /\ PostReturned =>
       \A c \in ColumnNames(model) :
         (/\ ColumnType(model, c) \in Numeric
          /\ TextAt(call.req, KeyFor(FormKey(c), call.i)) = <<>>)
           => (instance[c] = None /\ form[c] = None)

\* C2, amended: the same of get for every such column, and of post for every
\* such column but the identity column, in each call that reaches the column
C2_FalsyBindsNone ==
  /\ (call.op = "get" /\ call.err = 0) =>
       \A c \in ColumnNames(model) :
         (ColumnType(model, c) \in Numeric /\ instance[c] \in Falsy)
           => form[c] = None
  /\ call.op = "post" =>
       \A c \in NonIdentity(model) :
         (/\ ColumnType(model, c) \in Numeric
          /\ call.err = 0 \/ Place(model, c) < call.err
          /\ TextAt(call.req, KeyFor(c, call.i)) = <<>>)
           => (instance[c] = None /\ form[c] = None)

\* C2's case: get has read an instance holding 0 and '' in numeric columns
C2_Witness ==
  /\ call.op = "get" /\ call.err = 0 /\ model = "Task"
  /\ instance["quantity"] = IntV(0) /\ form["quantity"] = None
  /\ instance["due"] = StrV(<<>>) /\ form["due"] = None

\* a step of post with index k >= 0 that returns
IndexedPost == call'.op = "post" /\ call'.err = 0 /\ call'.i >= 0

\* C3 as stated: an indexed post takes a column's value from its suffixed
\* key and leaves the form fields and instance attributes of every other
\* column as they were
C3_Original ==
  [][IndexedPost =>
       \A c \in NonIdentity(model) :
         KeyFor(c, call'.i) \in DOMAIN call'.req =>
           /\ form'[c] = Coercion(ColumnType(model, c), call'.req,
                                  KeyFor(c, call'.i))
           /\ \A d \in ColumnNames(model) \ {c} :
                form'[d] = form[d] /\ instance'[d] = instance[d]]_vars

\* C3, amended: an indexed post takes every non-identity column's value from
\* the column's own suffixed key, whatever the unsuffixed key holds, so a
\* column whose suffixed key is missing is bound to the absent value; only
\* the instance's id, and the form's id when record_id is missing or empty,
\* are as before the call
C3_IndexedBinding ==
  [][IndexedPost =>
       /\ \A c \in NonIdentity(model) :
            /\ form'[c] = Coercion(ColumnType(model, c), call'.req,
                                   KeyFor(c, call'.i))
            /\ instance'[c] = form'[c]
       /\ "id" \in ColumnNames(model) =>
            /\ instance'["id"] = instance["id"]
            /\ TextAt(call'.req, "record_id") = <<>> => form'["id"] = form["id"]
    ]_vars

\* C3's case: the request holds quantity and quantity-0 with different text,
\* and the post with index 0 has bound quantity-0
C3_Witness ==
  /\ PostReturned /\ call.i = 0 /\ model = "Task"
  /\ DOMAIN call.req = {"quantity", "quantity-0"}
  /\ call.req["quantity"] = <<"0">> /\ call.req["quantity-0"] = <<"7">>
  /\ form["quantity"] = IntV(7) /\ form["due"] = None

\* the date column's text in the call of this step is not empty and ...
DateTextMet(c) ==
  /\ call'.op = "post"
  /\ ColumnType(model, c) = "Date"
  /\ TextAt(call'.req, KeyFor(c, call'.i)) # <<>>
  /\ call'.err = 0 \/ call'.err >= Place(model, c)

\* what C4 says of a post that fails at column c: c as before the call, the
\* columns before it written, the columns after it as before the call
FailedAt(c) ==
  /\ call'.err = Place(model, c)
  /\ form'[c] = form[c] /\ instance'[c] = instance[c]
  /\ \A d \in NonIdentity(model) :
       Place(model, d) < Place(model, c) =>
         /\ form'[d] = Coercion(ColumnType(model, d), call'.req,
                                KeyFor(d, call'.i))
         /\ instance'[d] = form'[d]
  /\ \A d \in ColumnNames(model) :
       Place(model, d) > Place(model, c) =>
         form'[d] = form[d] /\ instance'[d] = instance[d]

\* C4 as stated: date text that is not in YYYY-MM-DD form fails the call
C4_Original ==
  [][\A c \in NonIdentity(model) :
       (DateTextMet(c) /\ ~IsoForm(call'.req[KeyFor(c, call'.i)]))
         => FailedAt(c)]_vars

\* C4, amended: date text that strptime rejects for %Y-%m-%d (which takes
\* a month and a day of one digit too) fails the call at that column, the
\* column unchanged, the columns before it written, those after it unchanged
C4_MalformedDate ==
  [][\A c \in NonIdentity(model) :
       (DateTextMet(c) /\ ~DateParse(call'.req[KeyFor(c, call'.i)]).ok)
         => FailedAt(c)]_vars

\* C4's case: a post failed at due (the third column) after it wrote quantity;
\* done is as an earlier post left it
C4_Witness ==
  /\ call.op = "post" /\ call.err = 3 /\ model = "Task"
  /\ KeyFor("due", call.i) \in DOMAIN call.req
  /\ call.req[KeyFor("due", call.i)] = NotADate
  /\ form["quantity"] = IntV(7) /\ instance["quantity"] = IntV(7)
  /\ form["done"] = StrV(<<"o", "n">>) /\ form["due"] = DateV(2024, 3, 5)

\* C5: a post that returns stores a non-empty record_id (record_id-k in a
\* call with index k) as the form's id, and leaves the instance's id alone
C5_RecordId ==
  [][(call'.op = "post" /\ call'.err = 0 /\ "id" \in ColumnNames(model)) =>
       /\ TextAt(call'.req, KeyFor("record_id", call'.i)) # <<>> =>
            form'["id"] = StrV(call'.req[KeyFor("record_id", call'.i)])
       /\ instance'["id"] = instance["id"]]_vars

\* mappings a form might hold before a call, none of them a value any call
\* in the model binds
StaleForms(m) ==
  {[c \in ColumnNames(m) |-> StrV(<<"s", "t", "a", "l", "e">>)],
   [c \in ColumnNames(m) |-> IntV(-1)]}

\* the mapping the last bind call leaves when the form held f before it
Rebind(f) ==
  IF call.op = "get" THEN get(model, f, instance).form
  ELSE post(model, f, instance, call.req, call.i).form

BindReturned == call.op \in {"get", "post"} /\ call.err = 0

\* C6 as stated: after a successful bind call the mapping is what that call
\* alone determines, whatever the form held before, and its keys are the
\* columns
C6_Original ==
  /\ DOMAIN form = ColumnNames(model)
  /\ BindReturned => \A f \in StaleForms(model) : Rebind(f) = form

\* C6, amended: after a successful bind call every field but the identity
\* column's is what that call alone determines; the identity column's is
\* too after get and after a post whose request holds a non-empty record_id;
\* the mapping's keys are the columns in every state
C6_Overwritten ==
  /\ DOMAIN form = ColumnNames(model)
  /\ BindReturned =>
       \A f \in StaleForms(model) : \A c \in ColumnNames(model) :
         (c # "id" \/ call.op = "get" \/ TextAt(call.req, "record_id") # <<>>)
           => Rebind(f)[c] = form[c]

\* C6's case: a post after a get; the id get bound is still on the form
C6_Witness ==
  /\ PostReturned /\ model = "Item"
  /\ form["id"] = IntV(5) /\ form["name"] = StrV(<<"a", "b">>)
  /\ form["price"] = None

Rendered == html # NoTag

\* the options the caller gave html_tag
GivenOptions ==
  IF "options" \in Keys(html.attributes)
  THEN Attr(html.attributes, "options").items ELSE <<>>

RenderedSelect == Rendered /\ ColumnType(model, html.name) = "ForeignKey"

\* the caller's options follow the first option in their order, and each is
\* selected exactly when its value is the form's value of the column
OptionsFollow ==
  /\ html.out.tag = "select"
  /\ Len(html.out.options) = Len(GivenOptions) + 1
  /\ \A k \in 1..Len(GivenOptions) :
       /\ html.out.options[k + 1].value = ToStr(GivenOptions[k][1])
       /\ html.out.options[k + 1].label = GivenOptions[k][2].s
       /\ html.out.options[k + 1].selected <=> GivenOptions[k][1] = form[html.name]

\* C7 as stated: the select of a ForeignKey column starts with an option of
\* empty value and empty label, selected when that is the form's value, and
\* goes on with the caller's options
C7_Original ==
  RenderedSelect =>
    /\ OptionsFollow
    /\ html.out.options[1].value = <<>> /\ html.out.options[1].label = <<>>
    /\ html.out.options[1].selected <=> form[html.name] = StrV(<<>>)

\* C7, amended: the first option has the value 0 and an empty label and is
\* selected exactly when the form's value is 0; the caller's options follow
\* in their order, each selected exactly when its value is the form's value
C7_SelectOptions ==
  RenderedSelect =>
    /\ OptionsFollow
    /\ html.out.options[1].value = <<"0">> /\ html.out.options[1].label = <<>>
    /\ html.out.options[1].selected <=> form[html.name] = IntV(0)

\* C7's case: options Books and Toys, the form's category_id is 2, and only
\* Toys is selected
C7_Witness ==
  /\ RenderedSelect /\ form["category_id"] = IntV(2)
  /\ GivenOptions = <<Books, Toys>>
  /\ html.out.options[3].selected /\ html.out.options[3].value = <<"2">>
  /\ ~html.out.options[2].selected /\ ~html.out.options[1].selected

\* key="text" is among the attributes rendered
Emitted(key, text) ==
  \E k \in 1..Len(html.out.attrs) : html.out.attrs[k] = <<key, text>>

\* C8: a true boolean attribute other than autocomplete is rendered with its
\* name as its value, and a boolean autocomplete as on or off
C8_BooleanAttributes ==
  Rendered =>
    \A k \in 1..Len(html.attributes) :
      LET key == html.attributes[k][1]
          val == html.attributes[k][2]
      IN /\ (key # "autocomplete" /\ val = BoolV(TRUE)) => Emitted(key, <<key>>)
         /\ (key = "autocomplete" /\ val = BoolV(TRUE)) => Emitted(key, <<"o", "n">>)
         /\ (key = "autocomplete" /\ val = BoolV(FALSE))
              => Emitted(key, <<"o", "f", "f">>)

\* text that names a date in YYYY-MM-DD form
WellFormed(d) ==
  /\ IsoForm(d)
  /\ Num(SubSeq(d, 1, 4)) >= 1
  /\ Num(SubSeq(d, 6, 7)) \in 1..12
  /\ Num(SubSeq(d, 9, 10)) \in 1..DaysIn(Num(SubSeq(d, 1, 4)), Num(SubSeq(d, 6, 7)))

\* C9: after post of {c: d}, d a well-formed date text and c a Date column,
\* the instance and the form hold the date d names, and rendering c gives an
\* input of type date whose value is d
C9_DateRoundTrip ==
  \A c \in NonIdentity(model) :
    (/\ ColumnType(model, c) = "Date"
     /\ call.op = "post" /\ call.i = -1 /\ DOMAIN call.req = {c}
     /\ WellFormed(call.req[c]))
      => /\ call.err = 0
         /\ form[c] = DateV(Num(SubSeq(call.req[c], 1, 4)),
                            Num(SubSeq(call.req[c], 6, 7)),
                            Num(SubSeq(call.req[c], 9, 10)))
         /\ instance[c] = form[c]
         /\ (Rendered /\ html.name = c) =>
              /\ html.out.tag = "input" /\ html.out.type = "date"
              /\ html.out.value = call.req[c]

\* C9's case: due posted as 0999-12-31 and rendered
C9_Witness ==
  /\ model = "Task" /\ call.op = "post" /\ call.req = [k \in {"due"} |-> OldDate]
  /\ Rendered /\ html.name = "due" /\ html.out.value = OldDate

\* the render was asked with the index of the last post: no i after a post
\* without index, i = k after a post with index k
SameIndex ==
  IF call.i = -1 THEN "i" \notin Keys(html.attributes)
  ELSE "i" \in Keys(html.attributes) /\ Attr(html.attributes, "i") = IntV(call.i)

====
